---- MODULE Spec2Model ----
(***************************************************************************)
(* Model of the two Microsoft Graph mail notifiers of epic-awesome-gamer:  *)
(*   G  MsGraphMailer        (src/app/extensions/ms_graph_mailer.py)       *)
(*   M  MicrosoftMailClient  (src/app/services/notification_service.py)    *)
(* One behaviour is one constructed object and one send invocation on it.  *)
(* The msal and httpx libraries are the environment: every result they can *)
(* hand back (a value or a raised exception) is a nondeterministic choice. *)
(* Text is modelled by TLA+ strings, rendered by concatenation as the      *)
(* f-strings do.  Strings of the module are ASCII, so the fixed Chinese    *)
(* sentences of M are written as bracketed ASCII stand-ins.                *)
(***************************************************************************)
EXTENDS Integers, Sequences, FiniteSets, TLC

VARIABLES variant, cfg, confidential_client, promotions, pc, silent_result,
          result, token, body, headers, url, client_open, opened, response,
          exc, calls, log, outcome

vars == <<variant, cfg, confidential_client, promotions, pc, silent_result,
          result, token, body, headers, url, client_open, opened, response,
          exc, calls, log, outcome>>

\* ------------------------------------------------------------------ bounds
\* Longest promotions sequence handed to a send.
MaxPromos == 2

\* ------------------------------------------------------------ Python values
\* Python's None, where a string is expected.
NoneV == "<None>"

\* bool(v) of an Optional[str].
Truthy(v) == v # NoneV /\ v # ""

\* str(v) inside an f-string.
Str(v) == IF v = NoneV THEN "None" ELSE v

\* A configuration field as the settings can supply it.
FieldVals == {NoneV, "", "x"}

\* The recipient lists MicrosoftMailClient can be built with.
RecipientLists == {<< >>, <<"r1@x">>, <<"r1@x", "r2@x">>}

\* PromotionGame records (title, url, description); one title holds markup.
Games ==
  { [title |-> "Game A", url |-> "http://x/a", description |-> "first"],
    [title |-> "Game B", url |-> "http://x/b", description |-> "second"],
    [title |-> "<li>", url |-> "http://x/a", description |-> "third"] }

RECURSIVE SeqsUpTo(_, _)
SeqsUpTo(S, n) ==
  IF n = 0 THEN {<< >>}
  ELSE LET shorter == SeqsUpTo(S, n - 1)
       IN shorter \cup {Append(s, g) : s \in {t \in shorter : Len(t) = n - 1}, g \in S}

\* The argument of a send: a list (falsy when empty) or a one-shot iterator
\* such as a generator (always truthy).
PromotionArgs == [form : {"list", "iterator"}, items : SeqsUpTo(Games, MaxPromos)]

\* bool(promotions)
PromotionsTruthy(p) == p.form = "iterator" \/ Len(p.items) > 0

\* ------------------------------------------------------- msal result values
Tokens == {"tokA", "tokB"}

NoResult ==
  [isNone |-> TRUE, keys |-> {}, access_token |-> "", error |-> "", error_description |-> ""]

EmptyDict ==
  [isNone |-> FALSE, keys |-> {}, access_token |-> "", error |-> "", error_description |-> ""]

ErrorDict ==
  [isNone |-> FALSE, keys |-> {"error", "error_description"}, access_token |-> "",
   error |-> "invalid_client", error_description |-> "AADSTS7000215"]

TokenDict(t) ==
  [isNone |-> FALSE, keys |-> {"access_token"}, access_token |-> t,
   error |-> "", error_description |-> ""]

\* The local variable "result" before any acquire_token_* call has returned.
Unset ==
  [isNone |-> TRUE, keys |-> {"<unset>"}, access_token |-> "", error |-> "",
   error_description |-> ""]

\* A non-empty result with neither an access token nor an error.
PlainDict ==
  [isNone |-> FALSE, keys |-> {"token_type"}, access_token |-> "", error |-> "",
   error_description |-> ""]

\* What acquire_token_for_client can return.
MsalResults == {NoResult, EmptyDict, ErrorDict} \cup {TokenDict(t) : t \in Tokens}

\* What acquire_token_silent can return: None, or a dict with no "error" key,
\* which typically (not always) holds an access token.
SilentResults == {NoResult, EmptyDict, PlainDict} \cup {TokenDict(t) : t \in Tokens}

\* bool(result) of an Optional[dict].
ResultTruthy(r) == ~r.isNone /\ r.keys # {}

\* "access_token" in result
HasAccessToken(r) == "access_token" \in r.keys

\* result.get(key)
Get(r, key) ==
  IF key \notin r.keys THEN NoneV
  ELSE IF key = "error" THEN r.error
  ELSE IF key = "error_description" THEN r.error_description
  ELSE r.access_token

\* --------------------------------------------------------- records of a run
NoExc == [type |-> "", error |-> "", description |-> "", status_code |-> 0, content |-> ""]

Exc(type, error, description, status, content) ==
  [type |-> type, error |-> error, description |-> description,
   status_code |-> status, content |-> content]

NoResponse == [status_code |-> 0, text |-> ""]

LogEvent(level, event, missing, error, description, status, content) ==
  [level |-> level, event |-> event, missing |-> missing, error |-> error,
   description |-> description, status_code |-> status, content |-> content]

Call(kind, to, bearer, content, timeout) ==
  [kind |-> kind, url |-> to, bearer |-> bearer, content |-> content, timeout |-> timeout]

Returned == [kind |-> "returned", exc |-> NoExc]
Raised(e) == [kind |-> "raised", exc |-> e]
Running == [kind |-> "none", exc |-> NoExc]

\* ------------------------------------------------------------ httpx values
\* httpx.AsyncClient(timeout=30)
Timeout == 30

Statuses == {200, 202, 302, 500}

ResponseTexts == {"", "denied"}

\* What the sendMail endpoint can answer.
Responses == [status_code : Statuses, text : ResponseTexts]

\* Seeded fault (C5): a redirect counted as a success.
is_success_below_400(resp) == resp.status_code >= 200 /\ resp.status_code < 400

\* httpx.Response.is_success: a 2xx status.
is_success(resp) == resp.status_code >= 200 /\ resp.status_code <= 299

GraphScope == "https://graph.microsoft.com/.default"

\* ============================================================ MsGraphMailer
G_Configs ==
  [tenant_id : FieldVals, client_id : FieldVals, client_secret : FieldVals,
   sender : FieldVals, recipient : FieldVals, recipients : {<< >>}]

\* Seeded fault (C10): the test on tenant_id inverted.
G_authority_inverted(c) ==
  IF ~Truthy(c.tenant_id) THEN "https://login.microsoftonline.com/" \o Str(c.tenant_id) ELSE NoneV

\* __init__: authority is None unless tenant_id is truthy.
G_authority(c) ==
  IF Truthy(c.tenant_id) THEN "https://login.microsoftonline.com/" \o c.tenant_id ELSE NoneV

\* __init__: the confidential client is built only from truthy credentials.
G_init_confidential_client(c) ==
  IF Truthy(c.client_id) /\ Truthy(c.client_secret) /\ Truthy(G_authority(c))
  THEN "ConfidentialClientApplication"
  ELSE NoneV

\* The names of the settings whose value is falsy, in the order of the list.
G_missing_configs(c) ==
  LET named == << <<"MS_CLIENT_ID", c.client_id>>, <<"MS_CLIENT_SECRET", c.client_secret>>,
                  <<"MS_TENANT_ID", c.tenant_id>>, <<"MS_SENDER_ADDRESS", c.sender>>,
                  <<"MS_RECIPIENT_ADDRESS", c.recipient>> >>
      falsy == SelectSeq(named, LAMBDA nv : ~Truthy(nv[2]))
  IN [i \in 1..Len(falsy) |-> falsy[i][1]]

\* all([client_id, client_secret, tenant_id, sender, recipient])
G_all_fields(c) ==
  /\ Truthy(c.client_id)
  /\ Truthy(c.client_secret)
  /\ Truthy(c.tenant_id)
  /\ Truthy(c.sender)
  /\ Truthy(c.recipient)

\* is_configured(): the verdict and the events it logs.
is_configured(c, client) ==
  IF ~G_all_fields(c)
  THEN [ok |-> FALSE,
        events |-> <<LogEvent("WARNING", "not_configured", G_missing_configs(c),
                              NoneV, NoneV, 0, "")>>]
  ELSE IF ~Truthy(client)
  THEN [ok |-> FALSE,
        events |-> <<LogEvent("ERROR", "msal_init_failed", << >>, NoneV, NoneV, 0, "")>>]
  ELSE [ok |-> TRUE, events |-> << >>]

\* One <li> of _build_body.
G_item(game) ==
  "<li><strong>" \o game.title \o "</strong> - <a href=\"" \o game.url \o "\">"
    \o game.url \o "</a></li>"

RECURSIVE G_join(_)
G_join(items) ==
  IF items = << >> THEN "" ELSE G_item(Head(items)) \o G_join(Tail(items))

\* _build_body(promotions)
G_build_body(p) ==
  IF p.items = << >>
  THEN "<p>No free games detected from Epic Store at this time.</p>"
  ELSE "<p>Here are the current free games on Epic Store:</p><ul>" \o G_join(p.items) \o "</ul>"

\* send_free_game_digest(promotions) is called.
send_free_game_digest ==
  /\ variant = "G" /\ pc = "idle"
  /\ \E p \in PromotionArgs : promotions' = p
  /\ pc' = "validating"
  /\ UNCHANGED <<variant, cfg, confidential_client, silent_result, result, token, body,
                 headers, url, client_open, opened, response, exc, calls, log, outcome>>

\* if not self.is_configured(): return
G_is_configured ==
  /\ variant = "G" /\ pc = "validating"
  /\ LET v == is_configured(cfg, confidential_client)
     IN /\ log' = log \o v.events
        /\ IF v.ok
           THEN pc' = "acquire_token_silent" /\ outcome' = outcome
           ELSE pc' = "done" /\ outcome' = Returned
  /\ UNCHANGED <<variant, cfg, confidential_client, promotions, silent_result, result, token,
                 body, headers, url, client_open, opened, response, exc, calls>>

\* Seeded fault (C2): the failure is logged but the send goes on.
G_token_outcome_no_return(r) ==
  /\ result' = r
  /\ IF ~ResultTruthy(r) \/ ~HasAccessToken(r)
     THEN /\ log' = Append(log,
                           LogEvent("ERROR", "token_failed", << >>,
                                    IF ResultTruthy(r) THEN Get(r, "error") ELSE NoneV,
                                    IF ResultTruthy(r) THEN Get(r, "error_description") ELSE NoneV,
                                    0, ""))
          /\ token' = NoneV
     ELSE /\ log' = log
          /\ token' = Get(r, "access_token")
  /\ pc' = "rendering"
  /\ outcome' = outcome

\* _acquire_token, from the check of the result on, and the caller's
\* "if not token: return".
G_token_outcome(r) ==
  /\ result' = r
  /\ IF ~ResultTruthy(r) \/ ~HasAccessToken(r)
     THEN /\ log' = Append(log,
                           LogEvent("ERROR", "token_failed", << >>,
                                    IF ResultTruthy(r) THEN Get(r, "error") ELSE NoneV,
                                    IF ResultTruthy(r) THEN Get(r, "error_description") ELSE NoneV,
                                    0, ""))
          /\ token' = NoneV
          /\ pc' = "done"
          /\ outcome' = Returned
     ELSE /\ log' = log
          /\ token' = Get(r, "access_token")
          /\ IF Truthy(Get(r, "access_token"))
             THEN pc' = "rendering" /\ outcome' = outcome
             ELSE pc' = "done" /\ outcome' = Returned

\* Seeded fault (C9): the fallback taken whenever no access token came back.
G_needs_client_credentials_no_token(r) == ~ResultTruthy(r) \/ ~HasAccessToken(r)

\* The condition under which _acquire_token goes on to acquire_token_for_client.
G_needs_client_credentials(r) == ~ResultTruthy(r)

\* _acquire_token: the assertion and acquire_token_silent(scopes, account=None).
G_acquire_token_silent ==
  /\ variant = "G" /\ pc = "acquire_token_silent"
  /\ IF ~Truthy(confidential_client)
     THEN /\ pc' = "done"
          /\ outcome' = Raised(Exc("AssertionError", NoneV, NoneV, 0, ""))
          /\ UNCHANGED <<silent_result, result, token, calls, log>>
     ELSE \E r \in SilentResults :
            /\ silent_result' = r
            /\ calls' = Append(calls, Call("acquire_token_silent", GraphScope, "", "", 0))
            /\ IF G_needs_client_credentials(r)
               THEN /\ pc' = "acquire_token_for_client"
                    /\ UNCHANGED <<result, token, log, outcome>>
               ELSE G_token_outcome(r)
  /\ UNCHANGED <<variant, cfg, confidential_client, promotions, body, headers, url,
                 client_open, opened, response, exc>>

\* _acquire_token: acquire_token_for_client(scopes); the request may raise.
G_acquire_token_for_client ==
  /\ variant = "G" /\ pc = "acquire_token_for_client"
  /\ calls' = Append(calls, Call("acquire_token_for_client", GraphScope, "", "", 0))
  /\ \/ \E r \in MsalResults : G_token_outcome(r)
     \/ /\ pc' = "done"
        /\ outcome' = Raised(Exc("ConnectionError", NoneV, NoneV, 0, ""))
        /\ UNCHANGED <<result, token, log>>
  /\ UNCHANGED <<variant, cfg, confidential_client, promotions, silent_result, body, headers,
                 url, client_open, opened, response, exc>>

\* The payload's body, the Authorization header and the sendMail url are built.
G_build_payload ==
  /\ variant = "G" /\ pc = "rendering"
  /\ body' = G_build_body(promotions)
  /\ headers' = "Bearer " \o token
  /\ url' = "https://graph.microsoft.com/v1.0/users/" \o Str(cfg.sender) \o "/sendMail"
  /\ pc' = "client_enter"
  /\ UNCHANGED <<variant, cfg, confidential_client, promotions, silent_result, result, token,
                 client_open, opened, response, exc, calls, log, outcome>>

\* async with httpx.AsyncClient(timeout=30) as client: the client is opened.
G_client_enter ==
  /\ variant = "G" /\ pc = "client_enter"
  /\ client_open' = TRUE
  /\ opened' = opened + 1
  /\ pc' = "post"
  /\ UNCHANGED <<variant, cfg, confidential_client, promotions, silent_result, result, token,
                 body, headers, url, response, exc, calls, log, outcome>>

\* await client.post(url, json=payload, headers=headers): a response, or a
\* transport exception (a timeout after 30 s among them).
G_post ==
  /\ variant = "G" /\ pc = "post"
  /\ calls' = Append(calls, Call("sendMail", url, headers, body, Timeout))
  /\ \/ \E r \in Responses : response' = r /\ exc' = exc
     \/ response' = response /\ exc' = Exc("TransportError", NoneV, NoneV, 0, "")
  /\ pc' = "client_exit"
  /\ UNCHANGED <<variant, cfg, confidential_client, promotions, silent_result, result, token,
                 body, headers, url, client_open, opened, log, outcome>>

\* The with block is left: the client is closed, a pending exception goes on.
G_client_exit ==
  /\ variant = "G" /\ pc = "client_exit"
  /\ client_open' = FALSE
  /\ IF exc # NoExc
     THEN pc' = "done" /\ outcome' = Raised(exc)
     ELSE pc' = "check_response" /\ outcome' = outcome
  /\ UNCHANGED <<variant, cfg, confidential_client, promotions, silent_result, result, token,
                 body, headers, url, opened, response, exc, calls, log>>

\* Seeded fault (C8): a failed POST is tried once more.
G_log_outcome_retry ==
  /\ variant = "G" /\ pc = "check_response"
  /\ IF is_success(response)
     THEN /\ log' = Append(log, LogEvent("SUCCESS", "sent", << >>, NoneV, NoneV, 0, ""))
          /\ pc' = "done" /\ outcome' = Returned
     ELSE /\ log' = Append(log, LogEvent("ERROR", "send_failed", << >>, NoneV, NoneV,
                                         response.status_code, response.text))
          /\ IF Len(calls) < 4
             THEN pc' = "client_enter" /\ outcome' = outcome
             ELSE pc' = "done" /\ outcome' = Returned
  /\ UNCHANGED <<variant, cfg, confidential_client, promotions, silent_result, result, token,
                 body, headers, url, client_open, opened, response, exc, calls>>

\* if response.is_success: logger.success(...) else: logger.error(...)
G_log_outcome ==
  /\ variant = "G" /\ pc = "check_response"
  /\ IF is_success(response)
     THEN log' = Append(log, LogEvent("SUCCESS", "sent", << >>, NoneV, NoneV, 0, ""))
     ELSE log' = Append(log, LogEvent("ERROR", "send_failed", << >>, NoneV, NoneV,
                                      response.status_code, response.text))
  /\ pc' = "done"
  /\ outcome' = Returned
  /\ UNCHANGED <<variant, cfg, confidential_client, promotions, silent_result, result, token,
                 body, headers, url, client_open, opened, response, exc, calls>>

\* ====================================================== MicrosoftMailClient
M_Configs ==
  [tenant_id : FieldVals, client_id : FieldVals, client_secret : FieldVals,
   sender : FieldVals, recipient : {NoneV}, recipients : RecipientLists]

\* __init__: the authority is formatted from tenant_id whatever it holds.
M_authority(c) == "https://login.microsoftonline.com/" \o Str(c.tenant_id)

\* One <li> of send_promotions (the dash of the source is an em dash).
M_item(promotion) ==
  "<li><a href=\"" \o promotion.url \o "\">" \o promotion.title \o "</a> -- "
    \o promotion.description \o "</li>"

RECURSIVE M_join(_)
M_join(items) ==
  IF items = << >> THEN "" ELSE M_item(Head(items)) \o M_join(Tail(items))

\* html_body of send_promotions.
M_html_body(p) ==
  "<p>[zh: this week's free Epic games are:]</p>" \o "<ul>" \o M_join(p.items) \o "</ul>"
    \o "<p>[zh: sent automatically by epic-awesome-gamer.]</p>"

\* Seeded fault (C4): only 4xx and 5xx statuses raise.
raise_for_status_errors_only(resp) ==
  IF resp.status_code < 400
  THEN NoExc
  ELSE Exc("HTTPStatusError", NoneV, NoneV, resp.status_code, resp.text)

\* httpx.Response.raise_for_status(): HTTPStatusError unless the status is 2xx.
raise_for_status(resp) ==
  IF is_success(resp)
  THEN NoExc
  ELSE Exc("HTTPStatusError", NoneV, NoneV, resp.status_code, resp.text)

\* send_promotions(promotions) is called.
send_promotions ==
  /\ variant = "M" /\ pc = "idle"
  /\ \E p \in PromotionArgs : promotions' = p
  /\ pc' = "validating"
  /\ UNCHANGED <<variant, cfg, confidential_client, silent_result, result, token, body,
                 headers, url, client_open, opened, response, exc, calls, log, outcome>>

\* Seeded fault (C3): the test of the promotions argument left out.
M_validate_no_empty_check ==
  /\ variant = "M" /\ pc = "validating"
  /\ IF cfg.recipients = << >>
     THEN /\ log' = Append(log, LogEvent("WARNING", "not_configured", <<"recipients">>,
                                         NoneV, NoneV, 0, ""))
          /\ pc' = "done" /\ outcome' = Returned
     ELSE /\ log' = log
          /\ pc' = "acquire_token" /\ outcome' = outcome
  /\ UNCHANGED <<variant, cfg, confidential_client, promotions, silent_result, result, token,
                 body, headers, url, client_open, opened, response, exc, calls>>

\* if not promotions: ... return; if not self.recipients: ... return
M_validate ==
  /\ variant = "M" /\ pc = "validating"
  /\ IF ~PromotionsTruthy(promotions)
     THEN /\ log' = Append(log, LogEvent("DEBUG", "no_promotions", << >>, NoneV, NoneV, 0, ""))
          /\ pc' = "done" /\ outcome' = Returned
     ELSE IF cfg.recipients = << >>
     THEN /\ log' = Append(log, LogEvent("WARNING", "not_configured", <<"recipients">>,
                                         NoneV, NoneV, 0, ""))
          /\ pc' = "done" /\ outcome' = Returned
     ELSE /\ log' = log
          /\ pc' = "acquire_token" /\ outcome' = outcome
  /\ UNCHANGED <<variant, cfg, confidential_client, promotions, silent_result, result, token,
                 body, headers, url, client_open, opened, response, exc, calls>>

\* _acquire_token, from the check of the result on.
M_token_outcome(r) ==
  /\ result' = r
  /\ IF r.isNone
     THEN /\ token' = token /\ pc' = "done"
          /\ outcome' = Raised(Exc("TypeError", NoneV, NoneV, 0, ""))
     ELSE IF ~HasAccessToken(r)
     THEN /\ token' = token /\ pc' = "done"
          /\ outcome' = Raised(Exc("RuntimeError", NoneV, Get(r, "error_description"), 0, ""))
     ELSE /\ token' = Get(r, "access_token") /\ pc' = "rendering"
          /\ outcome' = outcome

\* _acquire_token(): the application is built (which may raise), then
\* acquire_token_for_client(scopes) is called (which may raise).
M_acquire_token ==
  /\ variant = "M" /\ pc = "acquire_token"
  /\ \/ /\ pc' = "done"
        /\ outcome' = Raised(Exc("ValueError", NoneV, NoneV, 0, ""))
        /\ UNCHANGED <<confidential_client, result, token, calls>>
     \/ /\ confidential_client' = "ConfidentialClientApplication"
        /\ calls' = Append(calls, Call("acquire_token_for_client", GraphScope, "", "", 0))
        /\ \/ \E r \in MsalResults : M_token_outcome(r)
           \/ /\ pc' = "done"
              /\ outcome' = Raised(Exc("ConnectionError", NoneV, NoneV, 0, ""))
              /\ UNCHANGED <<result, token>>
  /\ UNCHANGED <<variant, cfg, promotions, silent_result, body, headers, url, client_open,
                 opened, response, exc, log>>

\* The items, html_body, the sendMail url and the Authorization header are built.
M_render ==
  /\ variant = "M" /\ pc = "rendering"
  /\ body' = M_html_body(promotions)
  /\ url' = "https://graph.microsoft.com/v1.0/users/" \o Str(cfg.sender) \o "/sendMail"
  /\ headers' = "Bearer " \o token
  /\ pc' = "client_enter"
  /\ UNCHANGED <<variant, cfg, confidential_client, promotions, silent_result, result, token,
                 client_open, opened, response, exc, calls, log, outcome>>

\* async with httpx.AsyncClient(timeout=30) as client: the client is opened.
M_client_enter ==
  /\ variant = "M" /\ pc = "client_enter"
  /\ client_open' = TRUE
  /\ opened' = opened + 1
  /\ pc' = "post"
  /\ UNCHANGED <<variant, cfg, confidential_client, promotions, silent_result, result, token,
                 body, headers, url, response, exc, calls, log, outcome>>

\* resp = await client.post(url, json=message, headers=headers)
M_post ==
  /\ variant = "M" /\ pc = "post"
  /\ calls' = Append(calls, Call("sendMail", url, headers, body, Timeout))
  /\ \/ \E r \in Responses : response' = r /\ exc' = exc /\ pc' = "raise_for_status"
     \/ /\ response' = response
        /\ exc' = Exc("TransportError", NoneV, NoneV, 0, "")
        /\ pc' = "client_exit"
  /\ UNCHANGED <<variant, cfg, confidential_client, promotions, silent_result, result, token,
                 body, headers, url, client_open, opened, log, outcome>>

\* resp.raise_for_status(), still inside the with block.
M_raise_for_status ==
  /\ variant = "M" /\ pc = "raise_for_status"
  /\ exc' = raise_for_status(response)
  /\ pc' = "client_exit"
  /\ UNCHANGED <<variant, cfg, confidential_client, promotions, silent_result, result, token,
                 body, headers, url, client_open, opened, response, calls, log, outcome>>

\* Seeded fault (C6): the client is closed on the normal path only.
M_client_exit_leaks ==
  /\ variant = "M" /\ pc = "client_exit"
  /\ client_open' = (exc # NoExc)
  /\ IF exc # NoExc
     THEN pc' = "done" /\ outcome' = Raised(exc)
     ELSE pc' = "log_success" /\ outcome' = outcome
  /\ UNCHANGED <<variant, cfg, confidential_client, promotions, silent_result, result, token,
                 body, headers, url, opened, response, exc, calls, log>>

\* The with block is left: the client is closed, a pending exception goes on.
M_client_exit ==
  /\ variant = "M" /\ pc = "client_exit"
  /\ client_open' = FALSE
  /\ IF exc # NoExc
     THEN pc' = "done" /\ outcome' = Raised(exc)
     ELSE pc' = "log_success" /\ outcome' = outcome
  /\ UNCHANGED <<variant, cfg, confidential_client, promotions, silent_result, result, token,
                 body, headers, url, opened, response, exc, calls, log>>

\* logger.success(...)
M_log_success ==
  /\ variant = "M" /\ pc = "log_success"
  /\ log' = Append(log, LogEvent("SUCCESS", "sent", << >>, NoneV, NoneV, 0, ""))
  /\ pc' = "done"
  /\ outcome' = Returned
  /\ UNCHANGED <<variant, cfg, confidential_client, promotions, silent_result, result, token,
                 body, headers, url, client_open, opened, response, exc, calls>>

\* ============================================================ specification
\* The object as its constructor leaves it, before any send.
Init ==
  /\ variant \in {"G", "M"}
  /\ cfg \in IF variant = "G" THEN G_Configs ELSE M_Configs
  /\ confidential_client = IF variant = "G" THEN G_init_confidential_client(cfg) ELSE NoneV
  /\ promotions = [form |-> "list", items |-> << >>]
  /\ pc = "idle"
  /\ silent_result = Unset
  /\ result = Unset
  /\ token = NoneV
  /\ body = ""
  /\ headers = ""
  /\ url = ""
  /\ client_open = FALSE
  /\ opened = 0
  /\ response = NoResponse
  /\ exc = NoExc
  /\ calls = << >>
  /\ log = << >>
  /\ outcome = Running

Next ==
  \/ send_free_game_digest
  \/ G_is_configured
  \/ G_acquire_token_silent
  \/ G_acquire_token_for_client
  \/ G_build_payload
  \/ G_client_enter
  \/ G_post
  \/ G_client_exit
  \/ G_log_outcome
  \/ send_promotions
  \/ M_validate
  \/ M_acquire_token
  \/ M_render
  \/ M_client_enter
  \/ M_post
  \/ M_raise_for_status
  \/ M_client_exit
  \/ M_log_success

Spec == Init /\ [][Next]_vars

\* =============================================================== properties
HasCall(kind) == \E i \in 1..Len(calls) : calls[i].kind = kind

CountCalls(kind) == Cardinality({i \in 1..Len(calls) : calls[i].kind = kind})

HasLog(event) == \E i \in 1..Len(log) : log[i].event = event

CountLog(event) == Cardinality({i \in 1..Len(log) : log[i].event = event})

\* The positions at which sub occurs in s.
Occurrences(s, sub) ==
  {i \in 1..(Len(s) - Len(sub) + 1) : SubSeq(s, i, i + Len(sub) - 1) = sub}

Contains(s, sub) == Occurrences(s, sub) # {}

\* The k-th list item of an HTML text: from its k-th "<li>" up to the next one.
ListItem(s, k) ==
  LET starts == Occurrences(s, "<li>")
      from == CHOOSE i \in starts : Cardinality({j \in starts : j < i}) = k - 1
      later == {j \in starts : j > from}
      upto == IF later = {} THEN Len(s)
              ELSE (CHOOSE j \in later : \A m \in later : j <= m) - 1
  IN SubSeq(s, from, upto)

\* Some required field of the configuration is empty or missing.
RequiredFieldMissing ==
  \/ ~Truthy(cfg.tenant_id)
  \/ ~Truthy(cfg.client_id)
  \/ ~Truthy(cfg.client_secret)
  \/ ~Truthy(cfg.sender)
  \/ IF variant = "G" THEN ~Truthy(cfg.recipient) ELSE cfg.recipients = << >>

\* C1: with a required configuration field empty or missing, a send of a
\* non-empty promotions sequence makes no token request and no sendMail POST,
\* and ends by returning (not raising) after a "not configured" warning.
C1_NoNetworkUnlessConfigured ==
  (pc # "idle" /\ RequiredFieldMissing /\ promotions.items # << >>)
    => /\ ~HasCall("acquire_token_for_client")
       /\ ~HasCall("sendMail")
       /\ pc = "done" => (outcome = Returned /\ HasLog("not_configured"))

\* C7: for n >= 1 promotions the rendered body holds exactly n list items,
\* the i-th carrying the title and the href of the i-th promotion.
C7_OneItemPerPromotion ==
  (pc = "client_enter" /\ promotions.items # << >>)
    => /\ Cardinality(Occurrences(body, "<li>")) = Len(promotions.items)
       /\ \A i \in 1..Len(promotions.items) :
            /\ Contains(ListItem(body, i), promotions.items[i].title)
            /\ Contains(ListItem(body, i), "href=\"" \o promotions.items[i].url \o "\"")

\* The token acquisition ended with a response lacking an access token,
\* or with no response at all.
TokenResponseLacking == result # Unset /\ ~HasAccessToken(result)

\* C2 as stated: a response lacking an access token makes the send fail with
\* an error that carries the provider's error code and description, and no
\* sendMail POST is issued.
C2_FailsWithAuthenticationError ==
  TokenResponseLacking
    => /\ outcome.kind = "raised"
       /\ outcome.exc.error = Get(result, "error")
       /\ outcome.exc.description = Get(result, "error_description")
       /\ ~HasCall("sendMail")

\* C2 amended: a response lacking an access token ends the send with no
\* sendMail POST.  MsGraphMailer logs one error event carrying the provider's
\* error code and description (None where the response has none) and
\* returns; MicrosoftMailClient logs nothing and raises RuntimeError carrying
\* the error description only, or TypeError when there is no response.
C2_TokenFailureAbortsSend ==
  TokenResponseLacking
    => /\ pc = "done"
       /\ ~HasCall("sendMail")
       /\ opened = 0
       /\ variant = "G" =>
            /\ outcome = Returned
            /\ log = <<LogEvent("ERROR", "token_failed", << >>,
                                Get(result, "error"), Get(result, "error_description"),
                                0, "")>>
       /\ variant = "M" =>
            /\ log = << >>
            /\ outcome.kind = "raised"
            /\ outcome.exc.error = NoneV
            /\ IF result.isNone
               THEN outcome.exc.type = "TypeError"
               ELSE /\ outcome.exc.type = "RuntimeError"
                    /\ outcome.exc.description = Get(result, "error_description")

C2_Witness ==
  /\ variant = "M" /\ pc = "done"
  /\ result = ErrorDict
  /\ outcome.exc.type = "RuntimeError"

\* C3 as stated: an empty promotions collection, in whatever iterable form,
\* makes the send of either class a no-op with no token request and no POST.
C3_EmptyIsNoOp ==
  (pc # "idle" /\ promotions.items = << >>)
    => /\ ~HasCall("acquire_token_for_client")
       /\ ~HasCall("sendMail")
       /\ pc = "done" => outcome = Returned

\* C3 amended: MicrosoftMailClient skips a falsy (empty list) argument with a
\* debug event and no call at all; it does not skip an empty iterator, and
\* MsGraphMailer never skips: what it posts for an empty collection is the
\* fixed "No free games" sentence.
C3_EmptyInputPolicies ==
  /\ (variant = "M" /\ promotions.items = << >> /\ promotions.form = "list"
        /\ pc \notin {"idle", "validating"})
       => /\ pc = "done" /\ outcome = Returned
          /\ calls = << >>
          /\ log = <<LogEvent("DEBUG", "no_promotions", << >>, NoneV, NoneV, 0, "")>>
  /\ (variant = "M" /\ promotions.form = "iterator") => ~HasLog("no_promotions")
  /\ variant = "G" => ~HasLog("no_promotions")
  /\ (variant = "G" /\ promotions.items = << >>) =>
       \A i \in 1..Len(calls) :
         calls[i].kind = "sendMail"
           => calls[i].content = "<p>No free games detected from Epic Store at this time.</p>"

C3_Witness ==
  /\ variant = "G" /\ promotions.items = << >>
  /\ HasCall("sendMail")
  /\ pc = "done"

\* A 2xx status.
SuccessStatus(resp) == resp.status_code \in 200..299

\* The sendMail endpoint answered and the send has ended.
Answered == pc = "done" /\ response # NoResponse

\* C4 as stated: a non-success answer makes the send fail with an error that
\* carries the status and the body, a "send failed" event with both is
\* logged, and no success event is.
C4_FailsWithDeliveryErrorAndLogs ==
  (Answered /\ ~SuccessStatus(response))
    => /\ outcome.kind = "raised"
       /\ outcome.exc.status_code = response.status_code
       /\ outcome.exc.content = response.text
       /\ \E i \in 1..Len(log) :
            /\ log[i].event = "send_failed"
            /\ log[i].status_code = response.status_code
            /\ log[i].content = response.text
       /\ ~HasLog("sent")

\* C4 amended: on a non-success answer no success event is logged;
\* MsGraphMailer logs one "send failed" event carrying the status and the
\* body and returns without raising; MicrosoftMailClient raises
\* HTTPStatusError carrying the status and the body and logs no event.
C4_FailureStatusOutcome ==
  (Answered /\ ~SuccessStatus(response))
    => /\ ~HasLog("sent")
       /\ variant = "G" =>
            /\ outcome = Returned
            /\ log = <<LogEvent("ERROR", "send_failed", << >>, NoneV, NoneV,
                                response.status_code, response.text)>>
       /\ variant = "M" =>
            /\ outcome = Raised(Exc("HTTPStatusError", NoneV, NoneV,
                                    response.status_code, response.text))
            /\ log = << >>

C4_Witness ==
  /\ Answered /\ variant = "M"
  /\ response = [status_code |-> 500, text |-> "denied"]
  /\ outcome.kind = "raised"

\* C5: a success answer ends the send without error with the success event
\* logged exactly once; a success event is only ever logged after a sendMail
\* POST that was answered with a success status.
C5_SuccessLoggedOnce ==
  /\ (Answered /\ SuccessStatus(response))
       => (outcome = Returned /\ CountLog("sent") = 1)
  /\ HasLog("sent")
       => /\ CountLog("sent") = 1
          /\ CountCalls("sendMail") = 1
          /\ response # NoResponse /\ SuccessStatus(response)

C5_Witness ==
  /\ Answered /\ response.status_code = 202
  /\ HasLog("sent")
  /\ outcome = Returned

\* C6: the HTTP client is open only inside the with block of the POST, no
\* finished send leaves one open whatever the exit path, at most one is
\* opened, and a send that ends before the POST opens none.
C6_ClientReleased ==
  /\ client_open => pc \in {"post", "raise_for_status", "client_exit"}
  /\ pc = "done" => ~client_open
  /\ opened <= 1
  /\ (pc = "done" /\ ~HasCall("sendMail")) => opened = 0

C6_Witness ==
  /\ pc = "done" /\ opened = 1
  /\ outcome.kind = "raised"
  /\ outcome.exc.type \in {"TransportError", "HTTPStatusError"}
  /\ ~client_open

\* The position of a send in its pipeline.
StageRank(p) ==
  CASE p = "idle" -> 0
    [] p = "validating" -> 1
    [] p \in {"acquire_token_silent", "acquire_token"} -> 2
    [] p = "acquire_token_for_client" -> 3
    [] p = "rendering" -> 4
    [] p = "client_enter" -> 5
    [] p = "post" -> 6
    [] p = "raise_for_status" -> 7
    [] p = "client_exit" -> 8
    [] p \in {"check_response", "log_success"} -> 9
    [] p = "done" -> 10

\* Validating, authenticating, rendering and sending are passed in this order.
PipelineOrder ==
  /\ calls # << >> => StageRank(pc) >= 2 /\ ~HasLog("not_configured")
  /\ body # "" => StageRank(pc) >= 5 /\ HasAccessToken(result)
  /\ CountCalls("acquire_token_silent") <= 1
  /\ CountCalls("acquire_token_for_client") <= 1
  /\ CountCalls("sendMail") <= 1
  /\ \A i \in 1..Len(calls) :
       calls[i].kind = "sendMail"
         => /\ token \in Tokens
            /\ HasAccessToken(result) /\ result.access_token = token
            /\ calls[i].bearer = "Bearer " \o token
            /\ calls[i].content = body
            /\ \E j \in 1..(i - 1) :
                 calls[j].kind \in {"acquire_token_silent", "acquire_token_for_client"}

\* C8: a send moves through idle, validating, authenticating, rendering,
\* sending and its end in this order, never back; a sendMail POST follows a
\* token acquired in the same send and carries it as bearer; there is at most
\* one POST and one client-credentials request; and every send ends: a send
\* under way always has a next step, and each step moves it strictly on.
C8_LinearPipeline ==
  /\ [][StageRank(pc') > StageRank(pc)]_vars
  /\ []PipelineOrder
  /\ [](pc \notin {"idle", "done"} => ENABLED Next)

C8_Witness ==
  /\ pc = "done"
  /\ CountCalls("sendMail") = 1
  /\ calls[Len(calls)].bearer = "Bearer tokB"
  /\ outcome = Returned

\* Every client-credentials request of MsGraphMailer follows a silent attempt.
SilentFirst ==
  \A i \in 1..Len(calls) :
    calls[i].kind = "acquire_token_for_client"
      => \E j \in 1..(i - 1) : calls[j].kind = "acquire_token_silent"

\* C9 as stated: the silent attempt comes first, and whenever it yields no
\* access token (nothing, or a result without the field) the acquisition is
\* not reported as failed before the client-credentials request was made.
C9_FallbackWheneverNoToken ==
  variant = "G" =>
    /\ SilentFirst
    /\ (silent_result # Unset /\ ~HasAccessToken(silent_result) /\ HasLog("token_failed"))
         => HasCall("acquire_token_for_client")

\* C9 amended: the silent attempt comes first; the client-credentials request
\* is made exactly when the silent attempt returns a falsy result (None or an
\* empty dict), and then before any failure is reported; a non-empty silent
\* result is final, with or without an access token.
C9_FallbackWhenSilentFalsy ==
  variant = "G" =>
    /\ SilentFirst
    /\ (silent_result # Unset /\ ~ResultTruthy(silent_result))
         => /\ pc = "acquire_token_for_client" \/ HasCall("acquire_token_for_client")
            /\ HasLog("token_failed") => HasCall("acquire_token_for_client")
    /\ (silent_result # Unset /\ ResultTruthy(silent_result))
         => /\ ~HasCall("acquire_token_for_client")
            /\ result = silent_result

C9_Witness ==
  /\ variant = "G"
  /\ silent_result = NoResult
  /\ HasCall("acquire_token_for_client")
  /\ HasLog("token_failed")

\* C10: in MsGraphMailer, all five fields being truthy implies that __init__
\* built the confidential client: the assertion of _acquire_token never fails
\* and the "Failed to initialize" branch of is_configured is never taken.
C10_ConfiguredImpliesClient ==
  variant = "G" =>
    /\ G_all_fields(cfg) => Truthy(confidential_client)
    /\ ~HasLog("msal_init_failed")
    /\ outcome.exc.type # "AssertionError"
    /\ HasCall("acquire_token_silent") => Truthy(confidential_client)

C10_Witness ==
  /\ variant = "G"
  /\ G_all_fields(cfg)
  /\ HasCall("acquire_token_silent")

====
